---- MODULE Spec2Model ----
(***************************************************************************)
(* SWE-bench data point validator: DataPointLoader, PredictionFormatter    *)
(* and SWEBenchValidator (per-file pipeline LOAD -> CONVERT -> PERSIST ->  *)
(* EXECUTE -> COMPARE, batch aggregation, process exit code).              *)
(*                                                                         *)
(* Python values are modelled as tagged records:                           *)
(*   [t |-> "str",  s |-> <<c1, ..., cn>>]   a str, as its characters      *)
(*   [t |-> "arr",  a |-> <<v1, ..., vn>>]   a list                        *)
(*   [t |-> "obj",  m |-> f]                 a dict, f a function on keys  *)
(*   [t |-> "bool", b |-> TRUE]              a bool                        *)
(*   [t |-> "null"]                          None                          *)
(* The characters of a str are "[", "]", ",", " " (white space), "d" (any  *)
(* other text) and the letters of Tests; inside a JSON text a letter of    *)
(* Tests stands for the quoted string literal of that one-letter test id.  *)
(* The text json.dumps writes for a prediction is modelled character by    *)
(* character, with the quote, the backslash and the line feed escaped.     *)
(*                                                                         *)
(* Spec is the batch run of validate_data_points and main; LoadSpec,       *)
(* SaveSpec and CompareSpec are calls of the loader, of the formatter and  *)
(* of _validate_single_result on their own.                                *)
(***************************************************************************)
EXTENDS Integers, Sequences, FiniteSets, TLC

\* ------------------------------------------------------------------ bounds
\* test ids in a list of expected or actual tests
MaxListLen == 2
\* names in the file_names argument
MaxTargets == 2
\* data points handed to convert_to_predictions
MaxPoints == 2
\* calls of _validate_single_result on the same data point and report
MaxRuns == 2

\* --------------------------------------------------------- Python values
Str(s)  == [t |-> "str", s |-> s]
Arr(a)  == [t |-> "arr", a |-> a]
Obj(m)  == [t |-> "obj", m |-> m]
Bool(b) == [t |-> "bool", b |-> b]
None    == [t |-> "null"]
EmptyMap == [k \in {} |-> None]

Tests == {"p", "q"}

Range(s) == {s[i] : i \in DOMAIN s}

\* bool(v): the truth value Python gives v in `if v` / `not v`
Truthy(v) ==
  CASE v.t = "str"  -> Len(v.s) > 0
    [] v.t = "arr"  -> Len(v.a) > 0
    [] v.t = "obj"  -> DOMAIN v.m # {}
    [] v.t = "bool" -> v.b
    [] OTHER        -> FALSE

\* str.strip(): leading and trailing white space removed
WhiteSpace == {" ", "\n"}

RECURSIVE LStrip(_)
LStrip(s) == IF s # <<>> /\ Head(s) \in WhiteSpace THEN LStrip(Tail(s)) ELSE s

RECURSIVE RStrip(_)
RStrip(s) ==
  IF s # <<>> /\ s[Len(s)] \in WhiteSpace
  THEN RStrip(SubSeq(s, 1, Len(s) - 1)) ELSE s

Strip(s) == RStrip(LStrip(s))

\* ------------------------------------------------------------------ json
\* An outcome of a call that may raise: the value, or the exception's name.
Ok(v)    == [raised |-> FALSE, value |-> v]
Raise(e) == [raised |-> TRUE, exc |-> e]

RECURSIVE NoSpace(_)
NoSpace(s) ==
  IF s = <<>> THEN <<>>
  ELSE IF Head(s) = " " THEN NoSpace(Tail(s))
  ELSE <<Head(s)>> \o NoSpace(Tail(s))

\* The items of "x,y,..." (w without its brackets), or BadItems when w is not
\* a comma-separated run of string literals.
BadItems == <<[t |-> "bad"]>>

RECURSIVE ParseItems(_)
ParseItems(w) ==
  IF Len(w) = 1 /\ w[1] \in Tests THEN <<Str(<<w[1]>>)>>
  ELSE IF Len(w) >= 3 /\ w[1] \in Tests /\ w[2] = ","
       THEN LET rest == ParseItems(SubSeq(w, 3, Len(w)))
            IN  IF rest = BadItems THEN rest ELSE <<Str(<<w[1]>>)>> \o rest
  ELSE BadItems

\* json.loads(v): v must be a str (TypeError otherwise); its text is a
\* string literal or a list of string literals (JSONDecodeError otherwise).
JsonLoads(v) ==
  IF v.t # "str" THEN Raise("TypeError")
  ELSE LET w == NoSpace(v.s)
       IN  IF Len(w) = 1 /\ w[1] \in Tests THEN Ok(Str(w))
           ELSE IF Len(w) >= 2 /\ w[1] = "[" /\ w[Len(w)] = "]"
                THEN IF Len(w) = 2 THEN Ok(Arr(<<>>))
                     ELSE LET items == ParseItems(SubSeq(w, 2, Len(w) - 1))
                          IN  IF items = BadItems THEN Raise("JSONDecodeError")
                              ELSE Ok(Arr(items))
           ELSE Raise("JSONDecodeError")

\* json.dumps of a list of one-letter strings, as the text of a str
RECURSIVE DumpItems(_)
DumpItems(l) ==
  IF l = <<>> THEN <<>>
  ELSE IF Len(l) = 1 THEN <<l[1]>>
  ELSE <<l[1], ",", " ">> \o DumpItems(Tail(l))

JsonText(l) == Str(<<"[">> \o DumpItems(l) \o <<"]">>)

\* set(v): the elements of a list, the characters of a str, the keys of a
\* dict; TypeError for a value that is not iterable.
ToSet(v) ==
  CASE v.t = "arr" -> Ok(Range(v.a))
    [] v.t = "str" -> Ok({Str(<<v.s[i]>>) : i \in DOMAIN v.s})
    [] v.t = "obj" -> Ok({Str(<<k>>) : k \in DOMAIN v.m})
    [] OTHER       -> Raise("TypeError")

\* Variant: d[key], which raises KeyError for a missing key
Get_Strict(d, key, default) ==
  IF d.t # "obj" THEN Raise("AttributeError")
  ELSE IF key \in DOMAIN d.m THEN Ok(d.m[key])
  ELSE Raise("KeyError")

\* d.get(key, default): AttributeError unless d is a dict
Get(d, key, default) ==
  IF d.t # "obj" THEN Raise("AttributeError")
  ELSE IF key \in DOMAIN d.m THEN Ok(d.m[key]) ELSE Ok(default)

\* `key in d` for a dict; a list or str holds no field name of the model's
\* alphabet; TypeError for a value that is not a container.
Contains(d, key) ==
  CASE d.t = "obj"           -> Ok(key \in DOMAIN d.m)
    [] d.t \in {"arr", "str"} -> Ok(FALSE)
    [] OTHER                 -> Raise("TypeError")

\* The dict key a str stands for (instance ids are strs of at most one unit).
KeyOf(v) == IF v.s = <<>> THEN "" ELSE v.s[1]

\* ------------------------------------------------------- DataPointLoader
\* A file of the directory: absent, text that is not JSON, or a JSON value.
Absent     == [kind |-> "absent"]
Corrupt    == [kind |-> "corrupt"]
JsonFile(v) == [kind |-> "json", val |-> v]

required_fields ==
  <<"instance_id", "repo", "base_commit", "patch", "FAIL_TO_PASS", "PASS_TO_PASS">>

\* The loop over required_fields from position i: Ok(TRUE) when every field
\* is a key of data_point, Ok(FALSE) at the first missing one.
RECURSIVE HasFieldsFrom(_, _)
HasFieldsFrom(data_point, i) ==
  IF i > Len(required_fields) THEN Ok(TRUE)
  ELSE LET c == Contains(data_point, required_fields[i])
       IN  IF c.raised THEN c
           ELSE IF ~c.value THEN Ok(FALSE)
           ELSE HasFieldsFrom(data_point, i + 1)

EmptyTestsRejected(fail_to_pass, pass_to_pass) ==
  ~Truthy(fail_to_pass) /\ ~Truthy(pass_to_pass)

\* Variant: the patch is tested without strip()
validate_data_point_NoStrip(data_point) ==
  LET has == HasFieldsFrom(data_point, 1)
  IN  IF has.raised \/ ~has.value THEN has
      ELSE LET patch        == Get(data_point, "patch", Str(<<>>)).value
               fail_to_pass == Get(data_point, "FAIL_TO_PASS", Arr(<<>>)).value
               pass_to_pass == Get(data_point, "PASS_TO_PASS", Arr(<<>>)).value
           IN  IF ~Truthy(patch) THEN Ok(FALSE)
               ELSE IF EmptyTestsRejected(fail_to_pass, pass_to_pass) THEN Ok(FALSE)
               ELSE Ok(TRUE)

validate_data_point(data_point) ==
  LET has == HasFieldsFrom(data_point, 1)
  IN  IF has.raised \/ ~has.value THEN has
      ELSE LET patch        == Get(data_point, "patch", Str(<<>>)).value
               fail_to_pass == Get(data_point, "FAIL_TO_PASS", Arr(<<>>)).value
               pass_to_pass == Get(data_point, "PASS_TO_PASS", Arr(<<>>)).value
           IN  IF patch.t # "str" THEN Raise("AttributeError")
               ELSE IF Strip(patch.s) = <<>> THEN Ok(FALSE)
               ELSE IF EmptyTestsRejected(fail_to_pass, pass_to_pass) THEN Ok(FALSE)
               ELSE Ok(TRUE)

\* Variant: the data point is returned with its patch trimmed
load_single_data_point_Trimmed(file) ==
  IF file.kind # "json" THEN Ok(None)
  ELSE LET valid == validate_data_point(file.val)
       IN  IF valid.raised THEN Ok(None)
           ELSE IF valid.value
           THEN Ok(Obj([file.val.m EXCEPT !["patch"] = Str(Strip(@.s))]))
           ELSE Ok(None)

\* Ok(the data point of the file), or Ok(None): a file that cannot be opened
\* or decoded, an invalid data point and an exception raised by the
\* validation all give None (the except clauses of lines 99-104).
load_single_data_point(file) ==
  IF file.kind # "json" THEN Ok(None)
  ELSE LET valid == validate_data_point(file.val)
       IN  IF valid.raised THEN Ok(None)
           ELSE IF valid.value THEN Ok(file.val)
           ELSE Ok(None)

\* A target name: its stem and whether the name already ends in ".json".
Name(stem, json) == [stem |-> stem, json |-> json]

\* The file a target name resolves to (".json" appended when absent).
FileOf(file_name) == file_name.stem

\* Variant: the first name without a file ends the resolution of the names
RECURSIVE ResolveFiles_StopAtMissing(_, _)
ResolveFiles_StopAtMissing(disk, file_names) ==
  IF file_names = <<>> THEN <<>>
  ELSE LET file_path == FileOf(Head(file_names))
       IN  IF disk[file_path].kind # "absent"
           THEN <<file_path>> \o ResolveFiles_StopAtMissing(disk, Tail(file_names))
           ELSE <<>>

RECURSIVE ResolveFiles(_, _)
ResolveFiles(disk, file_names) ==
  IF file_names = <<>> THEN <<>>
  ELSE LET file_path == FileOf(Head(file_names))
           rest      == ResolveFiles(disk, Tail(file_names))
       IN  IF disk[file_path].kind # "absent" THEN <<file_path>> \o rest ELSE rest

\* The loop of lines 64-73; an exception leaving _load_single_data_point
\* would leave the loop and the method.
RECURSIVE LoadEach(_, _)
LoadEach(disk, json_files) ==
  IF json_files = <<>> THEN Ok(<<>>)
  ELSE LET data_point == load_single_data_point(disk[Head(json_files)])
       IN  IF data_point.raised THEN data_point
           ELSE LET rest == LoadEach(disk, Tail(json_files))
                IN  IF rest.raised THEN rest
                    ELSE IF Truthy(data_point.value)
                    THEN Ok(<<data_point.value>> \o rest.value)
                    ELSE rest

\* dir: [exists, listing]; listing is the order in which glob yields the
\* directory's files. given = FALSE stands for file_names = None.
load_data_points_by_files(dir, disk, given, file_names) ==
  IF ~dir.exists THEN Ok(<<>>)
  ELSE LET json_files == IF given THEN ResolveFiles(disk, file_names)
                         ELSE dir.listing
       IN  IF json_files = <<>> THEN Ok(<<>>) ELSE LoadEach(disk, json_files)

\* The files the loop of lines 64-66 hands to _load_single_data_point, which
\* opens each of them: none for a directory that does not exist
OpenedFiles(dir, disk, given, file_names) ==
  IF ~dir.exists THEN <<>>
  ELSE IF given THEN ResolveFiles(disk, file_names)
  ELSE dir.listing

\* ---------------------------------------------------- PredictionFormatter
model_name == Str(<<"gpt-4">>)

\* Variant: the patch is copied with its surrounding white space removed
convert_single_data_point_Stripped(data_point) ==
  LET instance_id == Get(data_point, "instance_id", None).value
      patch       == Get(data_point, "patch", None).value
  IN  IF ~Truthy(instance_id) \/ ~Truthy(patch) THEN None
      ELSE Obj([instance_id |-> instance_id,
                model_name_or_path |-> model_name,
                model_patch |-> Str(Strip(patch.s))])

convert_single_data_point(data_point) ==
  LET instance_id == Get(data_point, "instance_id", None).value
      patch       == Get(data_point, "patch", None).value
  IN  IF ~Truthy(instance_id) \/ ~Truthy(patch) THEN None
      ELSE Obj([instance_id |-> instance_id,
                model_name_or_path |-> model_name,
                model_patch |-> patch])

RECURSIVE convert_to_predictions(_)
convert_to_predictions(data_points) ==
  IF data_points = <<>> THEN <<>>
  ELSE LET prediction == convert_single_data_point(Head(data_points))
           rest       == convert_to_predictions(Tail(data_points))
       IN  IF Truthy(prediction) THEN <<prediction>> \o rest ELSE rest

\* json.dumps of a prediction. A text is a sequence of characters; the
\* characters that json.dumps escapes inside a string are the quote, the
\* backslash, the line feed and the non-ASCII letter.
Quote     == "\""
Backslash == "\\"
LineFeed  == "\n"
NonAscii  == "U+00E9"   \* one character, the letter e with an acute accent

\* Variant: the characters of a string are written as they are
EscapeChar_Raw(c) == <<c>>

EscapeChar(c) ==
  CASE c = Quote     -> <<Backslash, Quote>>
    [] c = Backslash -> <<Backslash, Backslash>>
    [] c = LineFeed  -> <<Backslash, "n">>
    [] c = NonAscii       -> <<Backslash, "u", "00e9">>
    [] OTHER         -> <<c>>

RECURSIVE Escape(_)
Escape(s) == IF s = <<>> THEN <<>> ELSE EscapeChar(Head(s)) \o Escape(Tail(s))

RECURSIVE DumpValue(_)
RECURSIVE DumpElems(_)
DumpElems(a) ==
  IF a = <<>> THEN <<>>
  ELSE IF Len(a) = 1 THEN DumpValue(a[1])
  ELSE DumpValue(a[1]) \o <<",", " ">> \o DumpElems(Tail(a))

DumpValue(v) ==
  CASE v.t = "str"  -> <<Quote>> \o Escape(v.s) \o <<Quote>>
    [] v.t = "bool" -> IF v.b THEN <<"true">> ELSE <<"false">>
    [] v.t = "arr"  -> <<"[">> \o DumpElems(v.a) \o <<"]">>
    [] OTHER        -> <<"null">>

\* The keys of a prediction, in the order the dict was built with
prediction_keys == <<"instance_id", "model_name_or_path", "model_patch">>

RECURSIVE DumpMembers(_, _)
DumpMembers(prediction, i) ==
  LET key    == prediction_keys[i]
      member == <<Quote, key, Quote, ":", " ">> \o DumpValue(prediction.m[key])
  IN  IF i = Len(prediction_keys) THEN member
      ELSE member \o <<",", " ">> \o DumpMembers(prediction, i + 1)

json_dumps(prediction) == <<"{">> \o DumpMembers(prediction, 1) \o <<"}">>

\* What the loop of lines 96-97 writes: each prediction and a line feed
RECURSIVE DumpLines(_)
DumpLines(predictions) ==
  IF predictions = <<>> THEN <<>>
  ELSE json_dumps(Head(predictions)) \o <<LineFeed>> \o DumpLines(Tail(predictions))

FsOutcomes == {"ok", "open_error", "write_error"}

\* Variant: the file is opened for appending, so that what an earlier save
\* left in it is kept
save_predictions_to_file_Append(predictions, old_file, fs) ==
  LET before == IF old_file.kind = "text" THEN old_file.text ELSE <<>>
  IN  CASE fs = "ok"          -> [ok |-> TRUE,  file |-> [kind |-> "text", text |-> before \o DumpLines(predictions)]]
        [] fs = "write_error" -> [ok |-> FALSE, file |-> [kind |-> "text", text |-> before]]
        [] OTHER              -> [ok |-> FALSE, file |-> old_file]

\* The file written by save_predictions_to_file under each outcome of the
\* file system: every line written, or the open refused (file untouched),
\* or a write refused after the open truncated the file.
save_predictions_to_file(predictions, old_file, fs) ==
  CASE fs = "ok"          -> [ok |-> TRUE,  file |-> [kind |-> "text", text |-> DumpLines(predictions)]]
    [] fs = "write_error" -> [ok |-> FALSE, file |-> [kind |-> "text", text |-> <<>>]]
    [] OTHER              -> [ok |-> FALSE, file |-> old_file]

\* ------------------------------------------------------ SWEBenchValidator
\* The report artifact at logs/run_evaluation/<run_id>/gpt-4/<instance_id>/
\* report.json: absent, text that is not JSON, or a JSON value.
ReportPath(run_id, instance_id) == <<run_id, KeyOf(instance_id)>>

IsMatch(expected, actual) == expected = actual

\* Variant: the harness's resolved flag alone decides
Classify_ResolvedOnly(fail_to_pass_match, pass_to_pass_match, is_resolved) ==
  IF Truthy(is_resolved) THEN "success" ELSE "test_mismatch"

Classify(fail_to_pass_match, pass_to_pass_match, is_resolved) ==
  IF fail_to_pass_match /\ pass_to_pass_match /\ Truthy(is_resolved)
  THEN "success" ELSE "test_mismatch"

ReadError(e) == [status |-> "read_error", error |-> e]

\* Lines 199-226: the body of the try block once json.load has returned
\* `report`; any exception raised in it gives read_error.
CompareReport(report, instance_id, expected_fail_to_pass, expected_pass_to_pass) ==
  LET instance_report == Get(report, KeyOf(instance_id), Obj(EmptyMap))
  IN  IF instance_report.raised THEN ReadError(instance_report.exc) ELSE
  LET tests_status == Get(instance_report.value, "tests_status", Obj(EmptyMap))
  IN  IF tests_status.raised THEN ReadError(tests_status.exc) ELSE
  LET f2p == Get(tests_status.value, "FAIL_TO_PASS", Obj(EmptyMap))
      p2p == Get(tests_status.value, "PASS_TO_PASS", Obj(EmptyMap))
  IN  IF f2p.raised THEN ReadError(f2p.exc) ELSE
  LET actual_fail_to_pass == Get(f2p.value, "success", Arr(<<>>))
  IN  IF actual_fail_to_pass.raised THEN ReadError(actual_fail_to_pass.exc)
      ELSE IF p2p.raised THEN ReadError(p2p.exc) ELSE
  LET actual_pass_to_pass == Get(p2p.value, "success", Arr(<<>>))
  IN  IF actual_pass_to_pass.raised THEN ReadError(actual_pass_to_pass.exc) ELSE
  LET ef == ToSet(expected_fail_to_pass)
      af == ToSet(actual_fail_to_pass.value)
      ep == ToSet(expected_pass_to_pass)
      ap == ToSet(actual_pass_to_pass.value)
  IN  IF ef.raised \/ af.raised \/ ep.raised \/ ap.raised THEN ReadError("TypeError") ELSE
  LET fail_to_pass_match == IsMatch(ef.value, af.value)
      pass_to_pass_match == IsMatch(ep.value, ap.value)
      is_resolved == Get(instance_report.value, "resolved", Bool(FALSE)).value
  IN  [status |-> Classify(fail_to_pass_match, pass_to_pass_match, is_resolved),
       resolved |-> is_resolved,
       fail_to_pass_match |-> fail_to_pass_match,
       pass_to_pass_match |-> pass_to_pass_match,
       expected_fail_to_pass |-> expected_fail_to_pass,
       actual_fail_to_pass |-> actual_fail_to_pass.value,
       expected_pass_to_pass |-> expected_pass_to_pass,
       actual_pass_to_pass |-> actual_pass_to_pass.value]

required_test_keys == {"instance_id", "FAIL_TO_PASS", "PASS_TO_PASS"}

\* Variant: a missing report is reported like an unreadable one
MissingReport_AsReadError(report_path) == [status |-> "read_error", error |-> report_path]

MissingReport(report_path) == [status |-> "report_not_found", error |-> report_path]

\* Ok(validation_result), or the exception that leaves the method.
validate_single_result(data_point, run_id, reports) ==
  LET instance_id == data_point.m["instance_id"]
      expected_fail_to_pass == JsonLoads(data_point.m["FAIL_TO_PASS"])
      expected_pass_to_pass == JsonLoads(data_point.m["PASS_TO_PASS"])
  IN  IF ~(required_test_keys \subseteq DOMAIN data_point.m) THEN Raise("KeyError")
      ELSE IF expected_fail_to_pass.raised THEN expected_fail_to_pass
      ELSE IF expected_pass_to_pass.raised THEN expected_pass_to_pass
      ELSE IF instance_id.t # "str" THEN Raise("TypeError")
      ELSE LET report_path == ReportPath(run_id, instance_id)
               report      == reports[report_path]
           IN  IF report.kind = "absent" THEN Ok(MissingReport(report_path))
               ELSE IF report.kind = "corrupt" THEN Ok(ReadError("JSONDecodeError"))
               ELSE Ok(CompareReport(report.val, instance_id,
                                     expected_fail_to_pass.value,
                                     expected_pass_to_pass.value))

\* Variant: a run cut off by the timeout is taken for a success
run_docker_evaluation_TimeoutPasses(outcome) ==
  CASE outcome.kind = "exit" /\ outcome.code # 0 ->
         [success |-> FALSE, error |-> [msg |-> "Exit code", code |-> outcome.code]]
    [] outcome.kind = "launch_error" -> [success |-> FALSE, error |-> [msg |-> "OSError"]]
    [] OTHER -> [success |-> TRUE]

\* subprocess.run of the harness: it returns an exit code, or runs into the
\* timeout, or cannot be launched.
run_docker_evaluation(outcome) ==
  CASE outcome.kind = "exit" /\ outcome.code = 0 -> [success |-> TRUE]
    [] outcome.kind = "exit" /\ outcome.code # 0 ->
         [success |-> FALSE, error |-> [msg |-> "Exit code", code |-> outcome.code]]
    [] outcome.kind = "timeout" -> [success |-> FALSE, error |-> [msg |-> "Timeout"]]
    [] OTHER -> [success |-> FALSE, error |-> [msg |-> "OSError"]]

\* Variant: the success flag of the pipeline alone decides
IsSuccessful_PipelineOnly(file_result) ==
  /\ "success" \in DOMAIN file_result
  /\ file_result.success

\* The test of lines 76-79: does file_result count as a successful file
IsSuccessful(file_result) ==
  /\ "success" \in DOMAIN file_result
  /\ file_result.success
  /\ "validation_result" \in DOMAIN file_result
  /\ file_result.validation_result.status = "success"

\* The float successful / total * 100, kept as the exact fraction num / den
\* (den = 1 for the literal 0 of an empty total).
SuccessRate(successful_files, total_files) ==
  IF total_files > 0 THEN [num |-> successful_files * 100, den |-> total_files]
  ELSE [num |-> 0, den |-> 1]

RateIs(rate, percent) == rate.num = percent * rate.den

\* Variant: half of the files is enough for exit code 0
ExitCode_HalfIsEnough(res) ==
  IF "error" \in DOMAIN res THEN 1
  ELSE IF res.success_rate.num >= 50 * res.success_rate.den THEN 0
  ELSE 1

\* The exit code of main for the value validate_data_points returned
ExitCode(res) ==
  IF "error" \in DOMAIN res THEN 1
  ELSE IF RateIs(IF "success_rate" \in DOMAIN res THEN res.success_rate
                 ELSE [num |-> 0, den |-> 1], 100) THEN 0
  ELSE 1

\* ----------------------------------------------------------- the inputs
Text == Str(<<"d">>)

Record(instance_id, patch, fail_to_pass, pass_to_pass) ==
  Obj([instance_id |-> instance_id, repo |-> Text, base_commit |-> Text,
       patch |-> patch, FAIL_TO_PASS |-> fail_to_pass,
       PASS_TO_PASS |-> pass_to_pass])

Without(record, key) == Obj([k \in DOMAIN record.m \ {key} |-> record.m[k]])

Id1 == Str(<<"i1">>)
Id2 == Str(<<"i2">>)

ValidRecord      == Record(Id1, Text, JsonText(<<"p">>), JsonText(<<>>))
\* (its patch has two lines)
EmptyListsRecord ==
  Record(Id2, Str(<<"d", LineFeed, "d">>), JsonText(<<>>), JsonText(<<>>))
EmptyIdRecord    == Record(Str(<<>>), Text, JsonText(<<"p">>), JsonText(<<>>))
BlankPatchRecord == Record(Id1, Str(<<" ">>), JsonText(<<"p">>), JsonText(<<>>))
NoRepoRecord     == Without(ValidRecord, "repo")
BadTestsRecord   == Record(Id1, Text, Text, JsonText(<<"q">>))

Stems == {"a", "b"}

TargetNames == {Name(st, FALSE) : st \in Stems} \cup {Name("a", TRUE)}

Disk(a, b) == [st \in Stems |-> IF st = "a" THEN a ELSE b]

\* The directories the batch is run on: [exists, disk]
Directories ==
  { [exists |-> TRUE,  disk |-> Disk(JsonFile(ValidRecord), Absent)],
    [exists |-> TRUE,  disk |-> Disk(JsonFile(ValidRecord), JsonFile(EmptyListsRecord))],
    [exists |-> TRUE,  disk |-> Disk(JsonFile(BadTestsRecord), Corrupt)],
    [exists |-> TRUE,  disk |-> Disk(JsonFile(EmptyIdRecord), JsonFile(NoRepoRecord))],
    [exists |-> TRUE,  disk |-> Disk(JsonFile(BlankPatchRecord), JsonFile(Arr(<<>>)))],
    [exists |-> TRUE,  disk |-> Disk(Absent, Absent)],
    [exists |-> FALSE, disk |-> Disk(Absent, Absent)] }

SeqsUpTo(S, n) == UNION {[1..k -> S] : k \in 0..n}

IsListingOf(listing, d) ==
  /\ Range(listing) = {st \in Stems : d[st].kind # "absent"}
  /\ Len(listing) = Cardinality(Range(listing))

\* The report the harness may leave for one instance
Entry(resolved, fail_to_pass, pass_to_pass) ==
  Obj([resolved |-> resolved,
       tests_status |->
         Obj([FAIL_TO_PASS |-> Obj([success |-> Arr(fail_to_pass)]),
              PASS_TO_PASS |-> Obj([success |-> Arr(pass_to_pass)])])])

ReportOf(key, entry) == [kind |-> "json", val |-> Obj(key :> entry)]

P == Str(<<"p">>)
Q == Str(<<"q">>)

HarnessReports(key) ==
  { Corrupt,
    [kind |-> "json", val |-> Arr(<<>>)],
    ReportOf(key, Entry(Bool(TRUE), <<P>>, <<>>)),
    ReportOf(key, Entry(Bool(FALSE), <<P>>, <<>>)),
    ReportOf(key, Entry(Bool(TRUE), <<Q>>, <<>>)),
    ReportOf(key, Entry(Bool(TRUE), <<>>, <<>>)) }

ExitCodes == {0, 1, 2}

\* What one harness run does: its outcome and the report it leaves (keep =
\* TRUE: it leaves the report path as it was). A run that is not launched
\* writes nothing.
HarnessRuns(key) ==
  { [outcome |-> [kind |-> "exit", code |-> c], keep |-> TRUE, report |-> Absent] :
      c \in ExitCodes }
  \cup { [outcome |-> [kind |-> k], keep |-> TRUE, report |-> Absent] :
      k \in {"timeout", "launch_error"} }
  \cup { [outcome |-> [kind |-> "exit", code |-> 0], keep |-> FALSE, report |-> r] :
      r \in HarnessReports(key) }
  \cup { [outcome |-> [kind |-> "timeout"], keep |-> FALSE, report |-> Corrupt] }

\* ------------------------------------------------------------- the state
VARIABLES
  dir,          \* [exists, listing]: the data points directory
  disk,         \* stem -> the file <stem>.json
  args,         \* [given, names]: the file_names argument (given = FALSE: None)
  pc,           \* the statement the run is at
  file_names,   \* validate_data_points: the targets, once determined
  idx,          \* the position of the for loop in file_names
  all_results,  \* validate_data_points: the aggregate
  data_point,   \* _validate_single_file: the loaded data point
  predictions,  \* _validate_single_file: the converted predictions
  file_result,  \* what _validate_single_file returned
  pred_files,   \* target name -> the file predictions_<name>.jsonl
  reports,      \* <<run_id, instance id>> -> the report artifact
  results,      \* what validate_data_points returned
  exit_code,    \* the exit code of the process (-1 while it runs)
  trace,        \* history: the steps taken, [idx, step, ok, what]
  history,      \* history: the file_result of every iteration
  probe,        \* the arguments of a single call of a method (None: no call)
  answer        \* what that call returned (None: not yet called)

vars == <<dir, disk, args, pc, file_names, idx, all_results, data_point,
          predictions, file_result, pred_files, reports, results, exit_code,
          trace, history, probe, answer>>

call == <<probe, answer>>

IdKeys == {"", "i1", "i2"}

NoFile == [kind |-> "absent"]

Init ==
  /\ \E d \in Directories :
       /\ disk = d.disk
       /\ \E l \in SeqsUpTo(Stems, Cardinality(Stems)) :
            /\ IsListingOf(l, d.disk)
            /\ dir = [exists |-> d.exists, listing |-> l]
  /\ args \in {[given |-> FALSE, names |-> <<>>]}
         \cup {[given |-> TRUE, names |-> l] : l \in SeqsUpTo(TargetNames, MaxTargets)}
  /\ pc = "start"
  /\ file_names = <<>>
  /\ idx = 0
  /\ all_results = None
  /\ data_point = None
  /\ predictions = <<>>
  /\ file_result = None
  /\ pred_files = [n \in TargetNames |-> NoFile]
  /\ reports = [path \in TargetNames \X IdKeys |-> Absent]
  /\ results = None
  /\ exit_code = -1
  /\ trace = <<>>
  /\ history = <<>>
  /\ probe = None
  /\ answer = None

\* --------------------------------------------------------- the operations
\* Variant: the loop walks the list of targets from its end
file_name_Reversed == file_names[Len(file_names) + 1 - idx]

file_name == file_names[idx]

Fail(reason) == [success |-> FALSE, error |-> reason]

\* what: the outcome of the harness run, for the step EXECUTE
Step(name, ok, what) ==
  Append(trace, [idx |-> idx, step |-> name, ok |-> ok, what |-> what])

\* The names glob("*.json") yields, as stems (nothing for a missing directory)
Discovered == [i \in DOMAIN dir.listing |-> Name(dir.listing[i], FALSE)]

\* Variant: no early return for an empty list of targets; the loop body is
\* skipped and the aggregate is returned
Start_NoEarlyReturn ==
  /\ pc = "start"
  /\ LET names == IF args.given THEN args.names ELSE Discovered
     IN  /\ file_names' = names
         /\ all_results' = [total_files |-> Len(names),
                            successful_files |-> 0,
                            failed_files |-> 0,
                            file_results |-> EmptyMap]
         /\ idx' = 1
         /\ pc' = IF names = <<>> THEN "finish" ELSE "load"
  /\ UNCHANGED <<dir, disk, args, data_point, predictions, file_result,
                 pred_files, reports, results, exit_code, trace, history>>
  /\ UNCHANGED call

\* validate_data_points, lines 48-67: the targets and the empty aggregate
Start ==
  /\ pc = "start"
  /\ LET names == IF args.given THEN args.names ELSE Discovered
     IN  /\ file_names' = names
         /\ IF names = <<>>
            THEN /\ results' = [error |-> "No files found for processing"]
                 /\ pc' = "returned"
                 /\ UNCHANGED <<idx, all_results>>
            ELSE /\ all_results' = [total_files |-> Len(names),
                                    successful_files |-> 0,
                                    failed_files |-> 0,
                                    file_results |-> EmptyMap]
                 /\ idx' = 1
                 /\ pc' = "load"
                 /\ UNCHANGED results
  /\ UNCHANGED <<dir, disk, args, data_point, predictions, file_result,
                 pred_files, reports, exit_code, trace, history>>
  /\ UNCHANGED call

\* Variant: once a file has failed, the files after it are not processed
Load_SkipAfterFailure ==
  /\ pc = "load"
  /\ LET data_points == load_data_points_by_files(dir, disk, TRUE, <<file_name>>)
     IN  IF all_results.failed_files > 0 \/ data_points.raised
            \/ data_points.value = <<>>
         THEN /\ file_result' = Fail([msg |-> "Failed to load"])
              /\ trace' = Step("LOAD", FALSE, None)
              /\ pc' = "record"
              /\ UNCHANGED data_point
         ELSE /\ data_point' = data_points.value[1]
              /\ trace' = Step("LOAD", TRUE, None)
              /\ pc' = "convert"
              /\ UNCHANGED file_result
  /\ UNCHANGED <<dir, disk, args, file_names, idx, all_results, predictions,
                 pred_files, reports, results, exit_code, history>>
  /\ UNCHANGED call

\* _validate_single_file, lines 108-114 (step 1); an exception is caught
\* by the except clause of lines 142-144
Load ==
  /\ pc = "load"
  /\ LET data_points == load_data_points_by_files(dir, disk, TRUE, <<file_name>>)
     IN  IF data_points.raised
         THEN /\ file_result' = Fail([msg |-> data_points.exc])
              /\ trace' = Step("LOAD", FALSE, None)
              /\ pc' = "record"
              /\ UNCHANGED data_point
         ELSE IF data_points.value = <<>>
         THEN /\ file_result' = Fail([msg |-> "Failed to load"])
              /\ trace' = Step("LOAD", FALSE, None)
              /\ pc' = "record"
              /\ UNCHANGED data_point
         ELSE /\ data_point' = data_points.value[1]
              /\ trace' = Step("LOAD", TRUE, None)
              /\ pc' = "convert"
              /\ UNCHANGED file_result
  /\ UNCHANGED <<dir, disk, args, file_names, idx, all_results, predictions,
                 pred_files, reports, results, exit_code, history>>
  /\ UNCHANGED call

\* _validate_single_file, lines 117-120 (step 2)
Convert ==
  /\ pc = "convert"
  /\ predictions' = convert_to_predictions(<<data_point>>)
  /\ IF predictions' = <<>>
     THEN /\ file_result' = Fail([msg |-> "Failed to convert to prediction"])
          /\ trace' = Step("CONVERT", FALSE, None)
          /\ pc' = "record"
     ELSE /\ trace' = Step("CONVERT", TRUE, None)
          /\ pc' = "persist"
          /\ UNCHANGED file_result
  /\ UNCHANGED <<dir, disk, args, file_names, idx, all_results, data_point,
                 pred_files, reports, results, exit_code, history>>
  /\ UNCHANGED call

\* _validate_single_file, lines 123-124 (step 3)
Persist ==
  /\ pc = "persist"
  /\ \E fs \in FsOutcomes :
       LET saved == save_predictions_to_file(predictions, pred_files[file_name], fs)
       IN  /\ pred_files' = [pred_files EXCEPT ![file_name] = saved.file]
           /\ IF ~saved.ok
              THEN /\ file_result' = Fail([msg |-> "Failed to save prediction"])
                   /\ trace' = Step("PERSIST", FALSE, None)
                   /\ pc' = "record"
              ELSE /\ trace' = Step("PERSIST", TRUE, None)
                   /\ pc' = "execute"
                   /\ UNCHANGED file_result
  /\ UNCHANGED <<dir, disk, args, file_names, idx, all_results, data_point,
                 predictions, reports, results, exit_code, history>>
  /\ UNCHANGED call

\* Variant: a failed harness run is tried a second time
Execute_Retry ==
  /\ pc = "execute"
  /\ LET instance_id == data_point.m["instance_id"]
         path == ReportPath(file_name, instance_id)
         first == \A k \in DOMAIN trace :
                    ~(trace[k].idx = idx /\ trace[k].step = "EXECUTE")
     IN  \E run \in HarnessRuns(KeyOf(instance_id)) :
           LET docker_result == run_docker_evaluation(run.outcome)
           IN  /\ reports' = IF run.keep THEN reports
                             ELSE [reports EXCEPT ![path] = run.report]
               /\ trace' = Step("EXECUTE", docker_result.success, run.outcome)
               /\ IF docker_result.success
                  THEN pc' = "compare" /\ UNCHANGED file_result
                  ELSE IF first
                  THEN pc' = "execute" /\ UNCHANGED file_result
                  ELSE /\ file_result' = Fail([msg |-> "Docker evaluation failed",
                                               cause |-> docker_result.error])
                       /\ pc' = "record"
  /\ UNCHANGED <<dir, disk, args, file_names, idx, all_results, data_point,
                 predictions, pred_files, results, exit_code, history>>
  /\ UNCHANGED call

\* _validate_single_file, lines 127-130 (step 4): the harness runs on the
\* predictions file under run_id = file_name
Execute ==
  /\ pc = "execute"
  /\ LET instance_id == data_point.m["instance_id"]
         path == ReportPath(file_name, instance_id)
     IN  \E run \in HarnessRuns(KeyOf(instance_id)) :
           LET docker_result == run_docker_evaluation(run.outcome)
           IN  /\ reports' = IF run.keep THEN reports
                             ELSE [reports EXCEPT ![path] = run.report]
               /\ IF ~docker_result.success
                  THEN /\ file_result' = Fail([msg |-> "Docker evaluation failed",
                                               cause |-> docker_result.error])
                       /\ trace' = Step("EXECUTE", FALSE, run.outcome)
                       /\ pc' = "record"
                  ELSE /\ trace' = Step("EXECUTE", TRUE, run.outcome)
                       /\ pc' = "compare"
                       /\ UNCHANGED file_result
  /\ UNCHANGED <<dir, disk, args, file_names, idx, all_results, data_point,
                 predictions, pred_files, results, exit_code, history>>
  /\ UNCHANGED call

\* Variant: no except clause around COMPARE; the exception reaches the
\* handler of validate_data_points, which returns a top-level error
Compare_Uncaught ==
  /\ pc = "compare"
  /\ LET validation_result == validate_single_result(data_point, file_name, reports)
     IN  IF validation_result.raised
         THEN /\ results' = [error |-> validation_result.exc]
              /\ trace' = Step("COMPARE", FALSE, None)
              /\ pc' = "returned"
              /\ UNCHANGED file_result
         ELSE /\ file_result' =
                   [success |-> TRUE,
                    instance_id |-> Get(data_point, "instance_id", Str(<<"unknown">>)).value,
                    run_id |-> file_name,
                    validation_result |-> validation_result.value]
              /\ trace' = Step("COMPARE", TRUE, None)
              /\ pc' = "record"
              /\ UNCHANGED results
  /\ UNCHANGED <<dir, disk, args, file_names, idx, all_results, data_point,
                 predictions, pred_files, reports, exit_code, history>>
  /\ UNCHANGED call

\* _validate_single_file, lines 133-144 (step 5 and the except clause)
Compare ==
  /\ pc = "compare"
  /\ LET validation_result == validate_single_result(data_point, file_name, reports)
     IN  IF validation_result.raised
         THEN /\ file_result' = Fail([msg |-> validation_result.exc])
              /\ trace' = Step("COMPARE", FALSE, None)
         ELSE /\ file_result' =
                   [success |-> TRUE,
                    instance_id |-> Get(data_point, "instance_id", Str(<<"unknown">>)).value,
                    run_id |-> file_name,
                    validation_result |-> validation_result.value]
              /\ trace' = Step("COMPARE", TRUE, None)
  /\ pc' = "record"
  /\ UNCHANGED <<dir, disk, args, file_names, idx, all_results, data_point,
                 predictions, pred_files, reports, results, exit_code, history>>
  /\ UNCHANGED call

\* Variant: a failed file is not counted
Count_SuccessOnly(agg, res) ==
  IF IsSuccessful(res) THEN [agg EXCEPT !.successful_files = @ + 1] ELSE agg

\* The counters after one more file_result (lines 76-79)
Count(agg, res) ==
  IF IsSuccessful(res)
  THEN [agg EXCEPT !.successful_files = @ + 1]
  ELSE [agg EXCEPT !.failed_files = @ + 1]

\* Variant: a file that failed is processed again
RecordResult_Again ==
  /\ pc = "record"
  /\ all_results' =
       Count([all_results EXCEPT !.file_results =
                (file_name :> file_result) @@ all_results.file_results],
             file_result)
  /\ history' = Append(history, file_result)
  /\ idx' = IF file_result.success THEN idx + 1 ELSE idx
  /\ pc' = IF idx' <= Len(file_names) THEN "load" ELSE "finish"
  /\ data_point' = None
  /\ predictions' = <<>>
  /\ file_result' = None
  /\ UNCHANGED <<dir, disk, args, file_names, pred_files, reports, results,
                 exit_code, trace>>
  /\ UNCHANGED call

\* validate_data_points, lines 74-80: the result of the file is recorded
\* and the loop moves on
RecordResult ==
  /\ pc = "record"
  /\ all_results' =
       Count([all_results EXCEPT !.file_results =
                (file_name :> file_result) @@ all_results.file_results],
             file_result)
  /\ history' = Append(history, file_result)
  /\ idx' = idx + 1
  /\ pc' = IF idx < Len(file_names) THEN "load" ELSE "finish"
  /\ data_point' = None
  /\ predictions' = <<>>
  /\ file_result' = None
  /\ UNCHANGED <<dir, disk, args, file_names, pred_files, reports, results,
                 exit_code, trace>>
  /\ UNCHANGED call

\* validate_data_points, lines 83-86: the success rate, and the return
Finish ==
  /\ pc = "finish"
  /\ results' = [total_files |-> all_results.total_files,
                 successful_files |-> all_results.successful_files,
                 failed_files |-> all_results.failed_files,
                 file_results |-> all_results.file_results,
                 success_rate |-> SuccessRate(all_results.successful_files,
                                              all_results.total_files)]
  /\ pc' = "returned"
  /\ UNCHANGED <<dir, disk, args, file_names, idx, all_results, data_point,
                 predictions, file_result, pred_files, reports, exit_code,
                 trace, history>>
  /\ UNCHANGED call

\* main, lines 314-325: the exit code of the process
Exit ==
  /\ pc = "returned"
  /\ exit_code' = ExitCode(results)
  /\ pc' = "exited"
  /\ UNCHANGED <<dir, disk, args, file_names, idx, all_results, data_point,
                 predictions, file_result, pred_files, reports, results,
                 trace, history>>
  /\ UNCHANGED call

Next ==
  \/ Start
  \/ Load
  \/ Convert
  \/ Persist
  \/ Execute
  \/ Compare
  \/ RecordResult
  \/ Finish
  \/ Exit

Spec == Init /\ [][Next]_vars

\* ------------------------------------------------------------ properties
Order == <<"LOAD", "CONVERT", "PERSIST", "EXECUTE", "COMPARE">>

\* The steps taken for the i-th target, in the order taken
StepsOf(i) == LET Of(e) == e.idx = i IN SelectSeq(trace, Of)

Returned == pc \in {"returned", "exited"}

\* The spec's reading of a successful file: the pipeline succeeded and the
\* nested comparison status is exactly success
Qualifies(res) ==
  /\ res.success
  /\ "validation_result" \in DOMAIN res
  /\ res.validation_result.status = "success"

\* C1: the steps of every target run in the order LOAD, CONVERT, PERSIST,
\* EXECUTE, COMPARE; no step follows a failed step; COMPARE runs only after
\* the harness returned exit code 0; the predictions file is written only
\* with a loaded data point and its prediction at hand; and a file whose
\* step failed gets success = FALSE, an error and no validation_result.
C1_StepsInOrderAndShortCircuit ==
  /\ \A i \in 1..Len(file_names) :
       LET ev == StepsOf(i)
       IN  /\ Len(ev) <= Len(Order)
           /\ \A k \in DOMAIN ev :
                /\ ev[k].step = Order[k]
                /\ k < Len(ev) => ev[k].ok
                /\ ev[k].step = "COMPARE" =>
                     ev[k - 1].what = [kind |-> "exit", code |-> 0]
           /\ (i < idx /\ ~ev[Len(ev)].ok) =>
                /\ history[i].success = FALSE
                /\ "error" \in DOMAIN history[i]
                /\ "validation_result" \notin DOMAIN history[i]
  /\ pc = "record" =>
       LET ev == StepsOf(idx)
       IN  ~ev[Len(ev)].ok =>
             /\ file_result.success = FALSE
             /\ "error" \in DOMAIN file_result
             /\ "validation_result" \notin DOMAIN file_result
  /\ pc \in {"persist", "execute", "compare"} =>
       /\ data_point # None
       /\ Len(predictions) = 1
  /\ pc \in {"execute", "compare"} =>
       pred_files[file_name] = [kind |-> "text", text |-> DumpLines(predictions)]

\* C1 witness: a harness failure after three good steps has been recorded
\* as a failure without a validation_result
C1_Witness ==
  /\ pc = "record"
  /\ Len(StepsOf(idx)) = 4
  /\ ~StepsOf(idx)[4].ok
  /\ file_result.success = FALSE
  /\ "validation_result" \notin DOMAIN file_result

\* C2: with a non-empty target list every target is processed whatever the
\* earlier targets did: a failed step or an exception raised in one file's
\* pipeline (COMPARE parsing the test lists included) is that file's
\* failure result, and the value returned is the aggregate, not an error.
C2_EveryTargetProcessed ==
  /\ (pc \in {"load", "convert", "persist", "execute", "compare", "record"}) =>
       /\ idx \in 1..Len(file_names)
       /\ Len(history) = idx - 1
  /\ (Returned /\ file_names # <<>>) =>
       /\ "error" \notin DOMAIN results
       /\ Len(history) = Len(file_names)
       /\ \A i \in DOMAIN file_names :
            /\ StepsOf(i) # <<>>
            /\ file_names[i] \in DOMAIN results.file_results
            /\ ~StepsOf(i)[Len(StepsOf(i))].ok =>
                 (history[i].success = FALSE /\ "error" \in DOMAIN history[i])

\* C2 witness: the first of two targets failed on an exception raised while
\* COMPARE parsed its test lists, and the batch returned an aggregate
C2_Witness ==
  /\ Returned
  /\ Len(file_names) = 2
  /\ history[1] = Fail([msg |-> "JSONDecodeError"])
  /\ StepsOf(1)[Len(StepsOf(1))].step = "COMPARE"
  /\ Len(StepsOf(2)) > 0
  /\ "error" \notin DOMAIN results

\* C4: successful_files counts exactly the processed files whose pipeline
\* result has success = TRUE and whose nested status is success; every
\* other processed file is counted in failed_files.
C4_SuccessfulOnlyIfStatusSuccess ==
  all_results # None =>
    /\ all_results.successful_files =
         Cardinality({i \in DOMAIN history : Qualifies(history[i])})
    /\ all_results.failed_files =
         Cardinality({i \in DOMAIN history : ~Qualifies(history[i])})

\* C4 witness: a completed pipeline with status test_mismatch has been
\* counted as failed, next to one success
C4_Witness ==
  /\ all_results # None
  /\ all_results.failed_files = 1
  /\ all_results.successful_files = 1
  /\ \E i \in DOMAIN history :
       /\ history[i].success
       /\ history[i].validation_result.status = "test_mismatch"

\* The test lists of the data point both parse as JSON lists
ListsParse(dp) ==
  /\ ~JsonLoads(dp.m["FAIL_TO_PASS"]).raised
  /\ JsonLoads(dp.m["FAIL_TO_PASS"]).value.t = "arr"
  /\ ~JsonLoads(dp.m["PASS_TO_PASS"]).raised
  /\ JsonLoads(dp.m["PASS_TO_PASS"]).value.t = "arr"

\* The report is JSON with an object per instance
IsShaped(report) ==
  /\ report.kind = "json"
  /\ report.val.t = "obj"
  /\ \A k \in DOMAIN report.val.m : report.val.m[k].t = "obj"

NoVerdict(res) ==
  /\ res.success
  /\ res.validation_result.status \in {"report_not_found", "read_error"}

\* C7: for a data point whose test lists parse, COMPARE gives
\* report_not_found exactly when the report artifact is absent at
\* <run_id>/<instance_id> and read_error, with the error text, exactly when
\* it is there and cannot be deserialized; nothing is raised, the file's
\* pipeline result has success = TRUE, and the file is counted as failed.
C7_MissingAndUnreadableReports ==
  /\ (pc = "record" /\ StepsOf(idx)[Len(StepsOf(idx))].step = "COMPARE"
        /\ ListsParse(data_point)) =>
       LET report == reports[<<file_name, KeyOf(data_point.m["instance_id"])>>]
           status == file_result.validation_result.status
       IN  /\ file_result.success
           /\ status = "report_not_found" <=> report.kind = "absent"
           /\ status = "read_error" <=> (report.kind # "absent" /\ ~IsShaped(report))
           /\ status = "read_error" => "error" \in DOMAIN file_result.validation_result
           /\ status \in {"success", "test_mismatch"} <=> IsShaped(report)
  /\ all_results # None =>
       all_results.failed_files >=
         Cardinality({i \in DOMAIN history : NoVerdict(history[i])})

\* C7 witness: one file without a report and one with an unreadable report
\* have both been recorded with success = TRUE and counted as failed
C7_Witness ==
  /\ Len(history) = 2
  /\ history[1].success
  /\ history[1].validation_result.status = "report_not_found"
  /\ history[2].success
  /\ history[2].validation_result.status = "read_error"
  /\ all_results.failed_files = 2

\* C9: a non-error result has total_files = the number of targets
\* requested, successful_files + failed_files = total_files and
\* success_rate = successful_files / total_files * 100.
C9_Totals ==
  (Returned /\ "error" \notin DOMAIN results) =>
    /\ results.total_files = Len(file_names)
    /\ args.given => results.total_files = Len(args.names)
    /\ results.successful_files + results.failed_files = results.total_files
    /\ results.total_files > 0
    /\ results.success_rate.num * results.total_files =
         results.successful_files * 100 * results.success_rate.den

\* C9 witness: two targets, one classified success and one failed: 50.0
C9_Witness ==
  /\ Returned
  /\ "error" \notin DOMAIN results
  /\ results.total_files = 2
  /\ results.successful_files = 1
  /\ results.failed_files = 1
  /\ RateIs(results.success_rate, 50)

\* C10: the exit code is 0 only when every requested file reached the
\* classification success, and 1 in every other case, a top-level error
\* included.
C10_ExitCode ==
  pc = "exited" =>
    /\ exit_code \in {0, 1}
    /\ exit_code = 0 <=>
         /\ "error" \notin DOMAIN results
         /\ Len(history) = Len(file_names)
         /\ \A i \in DOMAIN history : Qualifies(history[i])

\* C10 witness: both exit codes are produced; this is the run of two
\* targets that both classify success
C10_Witness ==
  /\ pc = "exited"
  /\ exit_code = 0
  /\ Len(file_names) = 2

\* ------------------------------------------------- single calls: loader
\* The state of a process that runs no batch
NoBatch ==
  /\ dir = [exists |-> FALSE, listing |-> <<>>]
  /\ disk = Disk(Absent, Absent)
  /\ args = [given |-> FALSE, names |-> <<>>]
  /\ pc = "idle"
  /\ file_names = <<>>
  /\ idx = 0
  /\ all_results = None
  /\ data_point = None
  /\ predictions = <<>>
  /\ file_result = None
  /\ pred_files = [n \in TargetNames |-> NoFile]
  /\ reports = [path \in TargetNames \X IdKeys |-> Absent]
  /\ results = None
  /\ exit_code = -1
  /\ trace = <<>>
  /\ history = <<>>

batch == <<dir, disk, args, pc, file_names, idx, all_results, data_point,
           predictions, file_result, pred_files, reports, results, exit_code,
           trace, history>>

Omitted == [t |-> "omitted"]

IdValues    == {Id1, Str(<<>>), None, Omitted}
PatchValues == {Text, Str(<<" ">>), Str(<<>>), Str(<<" ", "d">>), Arr(<<>>), Omitted}
TestsValues == {JsonText(<<>>), JsonText(<<"p">>), Str(<<>>), Text,
                Arr(<<>>), Arr(<<P>>), Omitted}
OtherValues == {<<Text, Text>>, <<Omitted, Text>>, <<Text, Omitted>>}

\* The JSON object with the fields of f that are not omitted
Fields(f) == Obj([k \in {k \in DOMAIN f : f[k] # Omitted} |-> f[k]])

LoaderFiles ==
  { JsonFile(Fields([instance_id |-> i, repo |-> o[1], base_commit |-> o[2],
                     patch |-> pa, FAIL_TO_PASS |-> f, PASS_TO_PASS |-> ps])) :
      i \in IdValues, o \in OtherValues, pa \in PatchValues,
      f \in TestsValues, ps \in TestsValues }
  \cup { Corrupt, Absent, JsonFile(Arr(<<>>)), JsonFile(None), JsonFile(Bool(TRUE)) }

OtherFiles == {JsonFile(Record(Id2, Text, JsonText(<<"q">>), JsonText(<<"p">>))),
               Corrupt, Absent}

NameLists == {<<Name("a", FALSE), Name("b", FALSE)>>,
              <<Name("b", TRUE), Name("a", FALSE)>>,
              <<Name("a", TRUE)>>}

LoadInit ==
  /\ NoBatch
  /\ answer = None
  /\ \/ \E a \in LoaderFiles, b \in OtherFiles, l \in NameLists :
          probe = [dir |-> [exists |-> TRUE, listing |-> <<>>],
                   disk |-> Disk(a, b), names |-> l]
     \/ \E l \in NameLists :
          probe = [dir |-> [exists |-> FALSE, listing |-> <<>>],
                   disk |-> Disk(Absent, Absent), names |-> l]

\* One call of load_data_points_by_files on a list of names, followed by
\* convert_to_predictions on the data points it returned
LoadCall ==
  /\ pc = "idle"
  /\ answer = None
  /\ "names" \in DOMAIN probe
  /\ LET data_points == load_data_points_by_files(probe.dir, probe.disk, TRUE, probe.names)
     IN  answer' = [data_points |-> data_points,
                    opened |-> OpenedFiles(probe.dir, probe.disk, TRUE, probe.names),
                    predictions |-> IF data_points.raised THEN <<>>
                                    ELSE convert_to_predictions(data_points.value)]
  /\ UNCHANGED <<batch, probe>>

LoadNext == LoadCall

LoadSpec == LoadInit /\ [][LoadNext]_vars

\* ------------------------------------------------ single calls: COMPARE
ListsUpTo(n) == SeqsUpTo(Tests, n)

AsItems(l) == [i \in DOMAIN l |-> Str(<<l[i]>>)]

\* The value under FAIL_TO_PASS or PASS_TO_PASS in tests_status
CategoryValues ==
  {Omitted, Obj(EmptyMap)} \cup {Obj([success |-> Arr(AsItems(l))]) : l \in ListsUpTo(MaxListLen)}

TestsStatusValues ==
  {Omitted} \cup {Fields([FAIL_TO_PASS |-> f, PASS_TO_PASS |-> ps]) :
                    f \in CategoryValues, ps \in CategoryValues}

EntryValues ==
  {Omitted} \cup {Fields([resolved |-> r, tests_status |-> ts]) :
                    r \in {Omitted, Bool(TRUE), Bool(FALSE)}, ts \in TestsStatusValues}

\* Reports of the shape the harness documents, keys possibly missing
ShapedReports == {[kind |-> "json", val |-> Fields([i1 |-> e])] : e \in EntryValues}

\* Reports that are JSON but not of that shape
MisshapedReports ==
  { [kind |-> "json", val |-> Arr(<<>>)],
    [kind |-> "json", val |-> Obj([i1 |-> Arr(<<>>)])],
    [kind |-> "json", val |-> Obj([i1 |-> Obj([tests_status |-> Bool(TRUE)])])],
    ReportOf("i1", Obj([resolved |-> Bool(TRUE),
                        tests_status |-> Obj([FAIL_TO_PASS |-> Obj([success |-> Bool(TRUE)])])])) }

CompareInit ==
  /\ NoBatch
  /\ answer = None
  /\ \E ef \in ListsUpTo(MaxListLen), ep \in ListsUpTo(MaxListLen),
        r \in ShapedReports \cup MisshapedReports \cup {Absent, Corrupt} :
       probe = [data_point |-> Record(Id1, Text, JsonText(ef), JsonText(ep)),
                run_id |-> Name("a", FALSE),
                expected_fail_to_pass |-> ef,
                expected_pass_to_pass |-> ep,
                report |-> r]

\* The report path of the call, and the reports on disk
OnDisk ==
  LET path == ReportPath(probe.run_id, probe.data_point.m["instance_id"])
  IN  [q \in TargetNames \X IdKeys |-> IF q = path THEN probe.report ELSE Absent]

\* The number of calls made so far
Runs == IF answer = None THEN 0 ELSE Len(history) + 1

\* Variant: the report is removed once it has been read
CompareCall_ConsumesReport ==
  /\ pc = "idle"
  /\ "report" \in DOMAIN probe
  /\ Runs < MaxRuns
  /\ answer' = validate_single_result(probe.data_point, probe.run_id, OnDisk)
  /\ history' = IF answer = None THEN history ELSE Append(history, answer)
  /\ probe' = [probe EXCEPT !.report = Absent]
  /\ UNCHANGED <<dir, disk, args, pc, file_names, idx, all_results, data_point,
                 predictions, file_result, pred_files, reports, results,
                 exit_code, trace>>

\* One call of _validate_single_result, on the data point and the report
\* the calls before it worked on; history keeps what those calls returned
CompareCall ==
  /\ pc = "idle"
  /\ "report" \in DOMAIN probe
  /\ Runs < MaxRuns
  /\ answer' = validate_single_result(probe.data_point, probe.run_id, OnDisk)
  /\ history' = IF answer = None THEN history ELSE Append(history, answer)
  /\ UNCHANGED <<dir, disk, args, pc, file_names, idx, all_results, data_point,
                 predictions, file_result, pred_files, reports, results,
                 exit_code, trace, probe>>

CompareNext == CompareCall

CompareSpec == CompareInit /\ [][CompareNext]_vars

\* ------------------------------------------- properties of single calls
\* key of a JSON object, or the default when the key is missing
Field(obj, key, default) == IF key \in DOMAIN obj.m THEN obj.m[key] ELSE default

\* The success list the report holds for the instance under a category
ActualList(report, category) ==
  Field(Field(Field(Field(report.val, "i1", Obj(EmptyMap)),
                    "tests_status", Obj(EmptyMap)),
              category, Obj(EmptyMap)),
        "success", Arr(<<>>)).a

ResolvedFlag(report) ==
  Field(Field(report.val, "i1", Obj(EmptyMap)), "resolved", Bool(FALSE))

SameTests(expected, actual) == Range(AsItems(expected)) = Range(actual)

\* C3: for a report that exists and parses, COMPARE gives success exactly
\* when the expected and actual FAIL_TO_PASS ids are the same set, the
\* expected and actual PASS_TO_PASS ids are the same set and resolved is
\* true, and test_mismatch in every other case.
C3_ConjunctiveClassification ==
  (answer # None /\ probe.report \in ShapedReports) =>
    /\ ~answer.raised
    /\ answer.value.status \in {"success", "test_mismatch"}
    /\ answer.value.status = "success" <=>
         /\ SameTests(probe.expected_fail_to_pass,
                      ActualList(probe.report, "FAIL_TO_PASS"))
         /\ SameTests(probe.expected_pass_to_pass,
                      ActualList(probe.report, "PASS_TO_PASS"))
         /\ ResolvedFlag(probe.report) = Bool(TRUE)

\* C3 witness: resolved = true with a FAIL_TO_PASS set that differs has
\* been classified test_mismatch
C3_Witness ==
  /\ answer # None
  /\ probe.report \in ShapedReports
  /\ ResolvedFlag(probe.report) = Bool(TRUE)
  /\ probe.expected_fail_to_pass = <<"p", "q">>
  /\ ActualList(probe.report, "FAIL_TO_PASS") = <<P>>
  /\ SameTests(probe.expected_pass_to_pass, ActualList(probe.report, "PASS_TO_PASS"))
  /\ answer.value.status = "test_mismatch"

\* Both test lists of the data point are JSON texts of the empty list
BothListsEmpty(dp) ==
  /\ JsonLoads(dp.m["FAIL_TO_PASS"]) = Ok(Arr(<<>>))
  /\ JsonLoads(dp.m["PASS_TO_PASS"]) = Ok(Arr(<<>>))

\* C5: a record in the input-file format whose two test lists are both
\* empty is excluded by the loader, so it is never the data point that
\* CONVERT, PERSIST or the harness work on.
C5_EmptyTestListsExcluded ==
  data_point # None => ~BothListsEmpty(data_point)

\* The files a call names, in the order of the names
NamedFiles == [i \in DOMAIN probe.names |-> probe.disk[FileOf(probe.names[i])]]

IsBlank(text) == \A i \in DOMAIN text : text[i] \in {" ", "\n"}

\* A record that misses a mandatory field or has an empty or white-space
\* patch, or a file that does not deserialize
IsBadFile(file) ==
  \/ file.kind = "corrupt"
  \/ /\ file.kind = "json"
     /\ \/ file.val.t # "obj"
        \/ \E k \in Range(required_fields) : k \notin DOMAIN file.val.m
        \/ file.val.m["patch"].t = "str" /\ IsBlank(file.val.m["patch"].s)

HoldsTests(v) ==
  \/ v.t = "arr" /\ v.a # <<>>
  \/ v.t = "str" /\ ~JsonLoads(v).raised /\ JsonLoads(v).value # Arr(<<>>)

\* A record with the six fields, a patch with text in it and a test list
\* that holds a test
IsGoodFile(file) ==
  /\ file.kind = "json"
  /\ file.val.t = "obj"
  /\ Range(required_fields) \subseteq DOMAIN file.val.m
  /\ file.val.m["patch"].t = "str"
  /\ ~IsBlank(file.val.m["patch"].s)
  /\ HoldsTests(file.val.m["FAIL_TO_PASS"]) \/ HoldsTests(file.val.m["PASS_TO_PASS"])

\* C6: load_data_points_by_files drops every record that misses a
\* mandatory field, has an empty or white-space patch or does not
\* deserialize, returns the valid records of the batch (in the order of
\* the names, nothing added), and raises nothing.
C6_BadRecordsDropped ==
  answer # None =>
    /\ ~answer.data_points.raised
    /\ LET got    == answer.data_points.value
           IsJson(f) == f.kind = "json"
           Kept(f) == f.val \in Range(got)
       IN  /\ \A i \in DOMAIN NamedFiles :
                /\ (IsBadFile(NamedFiles[i]) /\ NamedFiles[i].kind = "json") =>
                     NamedFiles[i].val \notin Range(got)
                /\ IsGoodFile(NamedFiles[i]) => NamedFiles[i].val \in Range(got)
           /\ LET kept == SelectSeq(SelectSeq(NamedFiles, IsJson), Kept)
              IN  got = [i \in DOMAIN kept |-> kept[i].val]
           /\ Len(got) <= Cardinality({i \in DOMAIN NamedFiles : ~IsBadFile(NamedFiles[i])
                                                                /\ NamedFiles[i].kind # "absent"})

\* C6 witness: of two named files the first has a white-space patch and is
\* dropped, the second is returned
C6_Witness ==
  /\ answer # None
  /\ Len(probe.names) = 2
  /\ NamedFiles[1].kind = "json"
  /\ NamedFiles[1].val.t = "obj"
  /\ Range(required_fields) \subseteq DOMAIN NamedFiles[1].val.m
  /\ NamedFiles[1].val.m["patch"] = Str(<<" ">>)
  /\ NamedFiles[2].kind = "json"
  /\ answer.data_points = Ok(<<NamedFiles[2].val>>)

\* The Prediction the spec gives for a data point
PredictionOf(dp) ==
  Obj([instance_id |-> dp.m["instance_id"],
       model_name_or_path |-> Str(<<"gpt-4">>),
       model_patch |-> dp.m["patch"]])

\* C8 as claimed: every data point the loader returned is converted into
\* exactly one Prediction (same instance_id, model_patch = patch, the
\* fixed model label): CONVERT drops none of them.
C8_EveryLoadedConverted ==
  (answer # None /\ ~answer.data_points.raised) =>
    answer.predictions =
      [i \in DOMAIN answer.data_points.value |-> PredictionOf(answer.data_points.value[i])]

HasInstanceId(dp) == dp.m["instance_id"] \notin {Str(<<>>), None}

\* C8 amended: every data point the loader returned whose instance_id is
\* not empty is converted into exactly one Prediction (same instance_id,
\* model_patch = patch, the fixed model label), in the order loaded; one
\* whose instance_id is empty or null yields no Prediction.
C8_LoadedWithIdConverted ==
  (answer # None /\ ~answer.data_points.raised) =>
    LET with_id == SelectSeq(answer.data_points.value, HasInstanceId)
    IN  answer.predictions = [i \in DOMAIN with_id |-> PredictionOf(with_id[i])]

\* C8 witness: two data points were loaded and converted, the first with
\* its patch copied as it is, white space included
C8_Witness ==
  /\ answer # None
  /\ ~answer.data_points.raised
  /\ Len(answer.data_points.value) = 2
  /\ Len(answer.predictions) = 2
  /\ answer.predictions[1].m["model_patch"] = Str(<<" ", "d">>)
  /\ answer.predictions[1].m["instance_id"] = Id1

\* ------------------------------------- further properties of the batch
\* The target set is empty: an explicit empty list, or no list and a
\* directory (existing or not) in which discovery finds no record file
EmptyTargets ==
  \/ args.given /\ args.names = <<>>
  \/ ~args.given /\ dir.listing = <<>>

Untouched ==
  /\ \A n \in DOMAIN pred_files : pred_files[n] = NoFile
  /\ \A path \in DOMAIN reports : reports[path] = Absent

\* C11: with an empty target set, validate_data_points returns at once the
\* top-level error result: no step of any file was taken (no load, no
\* predictions file, no harness run), and the result has the key "error"
\* only, so no counters and no file_results
C11_EmptyTargetsTopLevelError ==
  (EmptyTargets /\ pc # "start") =>
     /\ Returned
     /\ results = [error |-> "No files found for processing"]
     /\ DOMAIN results = {"error"}
     /\ trace = <<>>
     /\ history = <<>>
     /\ all_results = None
     /\ Untouched

C11_Witness ==
  /\ pc = "returned"
  /\ ~args.given
  /\ ~dir.exists
  /\ "error" \in DOMAIN results

\* The positions of the trace where the harness was run for the i-th target
Invocations(i) ==
  {k \in DOMAIN trace : trace[k].idx = i /\ trace[k].step = "EXECUTE"}

HarnessFailed(what) == ~(what.kind = "exit" /\ what.code = 0)

\* The reason string of a harness failure: "Exit code: N", "Timeout", or the
\* text of the error that kept the harness from being launched
ReasonOf(what) ==
  IF what.kind = "exit" THEN [msg |-> "Exit code", code |-> what.code]
  ELSE IF what.kind = "timeout" THEN [msg |-> "Timeout"]
  ELSE [msg |-> "OSError"]

\* The result of the i-th target, once _validate_single_file has returned it
ResultOf(i) == IF i <= Len(history) THEN history[i] ELSE file_result

HasResult(i) == i <= Len(history) \/ (i = idx /\ pc = "record")

\* C12: for each target the harness is run at most once, whatever its
\* outcome; a non-zero exit code, a timeout and a launch error each end the
\* pipeline of the file there (the report is not read: no COMPARE step
\* follows, no validation_result), with the per-file failure "Docker
\* evaluation failed: <reason>", the reason being "Exit code: N", "Timeout"
\* or the error text
C12_HarnessOnceAndFailureReasons ==
  \A i \in 1..Len(file_names) :
    /\ Cardinality(Invocations(i)) <= 1
    /\ \A k \in Invocations(i) :
         HarnessFailed(trace[k].what) =>
           /\ ~trace[k].ok
           /\ \A j \in DOMAIN trace : j > k => trace[j].idx # i
           /\ HasResult(i)
           /\ ResultOf(i) = [success |-> FALSE,
                             error |-> [msg |-> "Docker evaluation failed",
                                        cause |-> ReasonOf(trace[k].what)]]

\* A batch of two targets whose harness runs failed in two different ways,
\* one of them by timeout
C12_Witness ==
  /\ Returned
  /\ Len(history) = 2
  /\ \E k \in Invocations(1), j \in Invocations(2) :
       /\ trace[k].what.kind = "timeout"
       /\ trace[j].what = [kind |-> "exit", code |-> 2]
  /\ history[2].error.cause = [msg |-> "Exit code", code |-> 2]

Counted(agg) == agg.successful_files + agg.failed_files

\* C13: the targets are processed one at a time in the order of the list.
\* A step (load, convert, write, harness run, report read) is always a step
\* of the first target that has no result yet, it touches the predictions
\* file and the report of that target only, and it is taken when the results
\* of all earlier targets are in the aggregate counters; a result is
\* recorded for the target whose steps were the last ones taken. The harness
\* run is one blocking step of that pipeline, so no two runs overlap.
C13_OneAtATimeInOrder ==
  [][ /\ trace' # trace =>
           LET e == trace'[Len(trace')]
           IN  /\ trace' = Append(trace, e)
               /\ history' = history
               /\ e.idx = Len(history) + 1
               /\ Counted(all_results) = e.idx - 1
               /\ DOMAIN all_results.file_results =
                    {file_names[j] : j \in 1..(e.idx - 1)}
               /\ \A j \in DOMAIN trace : trace[j].idx <= e.idx
               /\ \A n \in DOMAIN pred_files :
                    pred_files'[n] # pred_files[n] => n = file_names[e.idx]
               /\ \A path \in DOMAIN reports :
                    reports'[path] # reports[path] => path[1] = file_names[e.idx]
      /\ history' # history =>
           LET i == Len(history')
           IN  /\ trace' = trace
               /\ i = Len(history) + 1
               /\ trace # <<>>
               /\ trace[Len(trace)].idx = i
               /\ Counted(all_results') = i
               /\ DOMAIN all_results'.file_results =
                    {file_names[j] : j \in 1..i}
               /\ all_results'.file_results[file_names[i]] = history'[i]
    ]_vars

\* A batch of two different targets, both taken as far as the harness
C13_Witness ==
  /\ Returned
  /\ Len(file_names) = 2
  /\ file_names[1] # file_names[2]
  /\ Invocations(1) # {}
  /\ Invocations(2) # {}
  /\ pred_files[file_names[2]] # NoFile

\* The result of a file is terminal: a failed step, or an outcome of COMPARE
Terminal(res) ==
  \/ ~res.success /\ "error" \in DOMAIN res
  \/ res.success /\ "validation_result" \in DOMAIN res

TimedOut(i) == \E k \in Invocations(i) : trace[k].what.kind = "timeout"

AllTerminal ==
  /\ Len(history) = Len(file_names)
  /\ \A i \in 1..Len(file_names) :
       /\ Terminal(history[i])
       /\ StepsOf(i) # <<>>
       /\ TimedOut(i) => /\ ~history[i].success
                         /\ history[i].error.cause = [msg |-> "Timeout"]

\* The statements still to be executed, at most: those of the pipeline of
\* the current file, six for every later file, and the return
StepsLeft ==
  CASE pc = "load" -> 6 [] pc = "convert" -> 5 [] pc = "persist" -> 4
    [] pc = "execute" -> 3 [] pc = "compare" -> 2 [] pc = "record" -> 1
    [] OTHER -> 0

Remaining ==
  CASE pc = "exited" -> 0
    [] pc = "returned" -> 1
    [] pc = "finish" -> 2
    [] pc = "start" ->
         3 + 6 * (IF args.given THEN Len(args.names) ELSE Len(dir.listing))
    [] OTHER -> 2 + 6 * (Len(file_names) - idx) + StepsLeft

\* C14: validate_data_points on a finite list returns, every harness run
\* ending with an exit code, a launch error or the timeout: no statement
\* before the return is without a successor, every step takes the run
\* closer to the return by a natural-number measure, and when it has
\* returned every target has a terminal result (a failed step or an outcome
\* of COMPARE); a file whose harness run was cut off by the timeout has
\* failed with the reason "Timeout" and the files after it were processed
C14_Returns ==
  /\ [](Remaining \in Nat)
  /\ [](~Returned => ENABLED Next)
  /\ [][Remaining' < Remaining]_vars
  /\ [](pc = "returned" => AllTerminal)

\* A returned batch whose first file timed out and whose second was compared
C14_Witness ==
  /\ pc = "returned"
  /\ Len(file_names) = 2
  /\ TimedOut(1)
  /\ "validation_result" \in DOMAIN history[2]

\* ------------------------------------ further properties of single calls
\* C15: a record with the six mandatory fields, a patch that is not empty
\* after trimming and a test list that holds a test: loading the one file
\* that holds it returns exactly one data point, and that data point is the
\* record, field for field (no field altered, dropped or added)
C15_ValidRecordLoadedIntact ==
  (answer # None /\ Len(probe.names) = 1 /\ IsGoodFile(NamedFiles[1])) =>
     /\ answer.data_points = Ok(<<NamedFiles[1].val>>)
     /\ LET got == answer.data_points.value[1]
        IN  /\ DOMAIN got.m = DOMAIN NamedFiles[1].val.m
            /\ \A k \in DOMAIN got.m : got.m[k] = NamedFiles[1].val.m[k]

\* A record whose patch starts with a blank and whose instance_id is null,
\* loaded from its file
C15_Witness ==
  /\ answer # None
  /\ Len(probe.names) = 1
  /\ IsGoodFile(NamedFiles[1])
  /\ NamedFiles[1].val.m["patch"] = Str(<<" ", "d">>)
  /\ NamedFiles[1].val.m["instance_id"] = None
  /\ Len(answer.data_points.value) = 1

\* ---------------------------------------------- single calls: formatter
\* Data points handed to the formatter: patches with a line feed, with a
\* quote and a backslash, with a non-ASCII letter; an empty instance_id, an
\* empty patch and a missing patch
Points ==
  { ValidRecord,
    Record(Id2, Str(<<"d", LineFeed, "d">>), JsonText(<<"p">>), JsonText(<<>>)),
    Record(Id1, Str(<<Quote, Backslash, "n">>), JsonText(<<"p">>), JsonText(<<>>)),
    Record(Id2, Str(<<NonAscii, " ">>), JsonText(<<>>), JsonText(<<"q">>)),
    EmptyIdRecord,
    Record(Id1, Str(<<>>), JsonText(<<"p">>), JsonText(<<>>)),
    Without(ValidRecord, "patch") }

SaveInit ==
  /\ NoBatch
  /\ answer = None
  /\ \E l \in SeqsUpTo(Points, MaxPoints) : probe = [data_points |-> l]

\* One call of convert_to_predictions on a list of data points, followed by
\* save_predictions_to_file on the predictions, to a path with no file yet
SaveCall ==
  /\ pc = "idle"
  /\ answer = None
  /\ "data_points" \in DOMAIN probe
  /\ \E fs \in FsOutcomes :
       LET converted == convert_to_predictions(probe.data_points)
           saved     == save_predictions_to_file(converted, NoFile, fs)
       IN  answer' = [predictions |-> converted,
                      saved |-> saved.ok,
                      file |-> saved.file]
  /\ UNCHANGED <<batch, probe>>

SaveNext == SaveCall

SaveSpec == SaveInit /\ [][SaveNext]_vars

\* Reading a JSON Lines file back: the text is cut at the line feeds and
\* each line is decoded as a JSON value
RECURSIVE SplitLines(_)
SplitLines(text) ==
  IF text = <<>> THEN <<>>
  ELSE IF \E k \in DOMAIN text : text[k] = LineFeed
  THEN LET k == CHOOSE k \in DOMAIN text :
                  /\ text[k] = LineFeed
                  /\ \A j \in 1..(k - 1) : text[j] # LineFeed
       IN  <<SubSeq(text, 1, k - 1)>> \o SplitLines(SubSeq(text, k + 1, Len(text)))
  ELSE <<text>>

NoParse == [ok |-> FALSE, val |-> None, next |-> 0]

Parsed(v, i) == [ok |-> TRUE, val |-> v, next |-> i]

\* The characters of a string literal from position i (after the opening
\* quote) up to its closing quote, with the escapes undone
RECURSIVE ReadString(_, _, _)
ReadString(w, i, acc) ==
  IF i > Len(w) THEN NoParse
  ELSE IF w[i] = Quote THEN Parsed(acc, i + 1)
  ELSE IF w[i] = LineFeed THEN NoParse
  ELSE IF w[i] # Backslash THEN ReadString(w, i + 1, Append(acc, w[i]))
  ELSE IF i + 1 > Len(w) THEN NoParse
  ELSE IF w[i + 1] \in {Quote, Backslash}
       THEN ReadString(w, i + 2, Append(acc, w[i + 1]))
  ELSE IF w[i + 1] = "n" THEN ReadString(w, i + 2, Append(acc, LineFeed))
  ELSE IF w[i + 1] = "u" /\ i + 2 <= Len(w) /\ w[i + 2] = "00e9"
       THEN ReadString(w, i + 3, Append(acc, NonAscii))
  ELSE NoParse

SkipSpace(w, i) == IF i <= Len(w) /\ w[i] = " " THEN i + 1 ELSE i

RECURSIVE ReadValue(_, _)
RECURSIVE ReadElems(_, _, _)
RECURSIVE ReadMembers(_, _, _)
ReadValue(w, i) ==
  IF i > Len(w) THEN NoParse
  ELSE CASE w[i] = Quote ->
              LET r == ReadString(w, i + 1, <<>>)
              IN  IF r.ok THEN Parsed(Str(r.val), r.next) ELSE NoParse
         [] w[i] = "true"  -> Parsed(Bool(TRUE), i + 1)
         [] w[i] = "false" -> Parsed(Bool(FALSE), i + 1)
         [] w[i] = "null"  -> Parsed(None, i + 1)
         [] w[i] = "["     ->
              IF i + 1 <= Len(w) /\ w[i + 1] = "]" THEN Parsed(Arr(<<>>), i + 2)
              ELSE ReadElems(w, i + 1, <<>>)
         [] w[i] = "{"     ->
              IF i + 1 <= Len(w) /\ w[i + 1] = "}" THEN Parsed(Obj(EmptyMap), i + 2)
              ELSE ReadMembers(w, i + 1, EmptyMap)
         [] OTHER -> NoParse

ReadElems(w, i, acc) ==
  LET r == ReadValue(w, i)
  IN  IF ~r.ok \/ r.next > Len(w) THEN NoParse
      ELSE IF w[r.next] = "]" THEN Parsed(Arr(Append(acc, r.val)), r.next + 1)
      ELSE IF w[r.next] = ","
           THEN ReadElems(w, SkipSpace(w, r.next + 1), Append(acc, r.val))
      ELSE NoParse

ReadMembers(w, i, m) ==
  IF i > Len(w) \/ w[i] # Quote THEN NoParse
  ELSE LET key == ReadString(w, i + 1, <<>>)
       IN  IF ~key.ok \/ Len(key.val) # 1 \/ key.next > Len(w) \/ w[key.next] # ":"
           THEN NoParse
           ELSE LET r == ReadValue(w, SkipSpace(w, key.next + 1))
                    m2 == (key.val[1] :> r.val) @@ m
                IN  IF ~r.ok \/ r.next > Len(w) THEN NoParse
                    ELSE IF w[r.next] = "}" THEN Parsed(Obj(m2), r.next + 1)
                    ELSE IF w[r.next] = ","
                         THEN ReadMembers(w, SkipSpace(w, r.next + 1), m2)
                    ELSE NoParse

ReadLine(line) ==
  LET r == ReadValue(line, 1)
  IN  IF r.ok /\ r.next = Len(line) + 1 THEN Ok(r.val) ELSE Raise("JSONDecodeError")

\* The records read back from the file the call wrote
ReadBack ==
  LET lines == SplitLines(answer.file.text)
  IN  [i \in DOMAIN lines |-> ReadLine(lines[i])]

HasIdAndPatch(dp) ==
  /\ {"instance_id", "patch"} \subseteq DOMAIN dp.m
  /\ Truthy(dp.m["instance_id"])
  /\ Truthy(dp.m["patch"])

\* C16: N data points with a non-empty instance_id and patch, converted by
\* convert_to_predictions and saved by save_predictions_to_file (the save
\* returning True): the lines read back from the file are exactly N
\* records, in the order of the data points, each with the model_patch
\* equal to the patch and the instance_id equal to the instance_id of its
\* data point
C16_RoundTrip ==
  ( /\ answer # None
    /\ "data_points" \in DOMAIN probe
    /\ answer.saved
    /\ \A i \in DOMAIN probe.data_points : HasIdAndPatch(probe.data_points[i]) ) =>
     /\ Len(ReadBack) = Len(probe.data_points)
     /\ \A i \in DOMAIN ReadBack :
          /\ ~ReadBack[i].raised
          /\ ReadBack[i].value.t = "obj"
          /\ {"instance_id", "model_patch"} \subseteq DOMAIN ReadBack[i].value.m
          /\ ReadBack[i].value.m["model_patch"] = probe.data_points[i].m["patch"]
          /\ ReadBack[i].value.m["instance_id"] = probe.data_points[i].m["instance_id"]

\* Two data points saved and read back, the first with a line feed in its
\* patch, the second with a quote and a backslash
C16_Witness ==
  /\ answer # None
  /\ "data_points" \in DOMAIN probe
  /\ answer.saved
  /\ Len(probe.data_points) = 2
  /\ HasIdAndPatch(probe.data_points[1])
  /\ probe.data_points[1].m["patch"] = Str(<<"d", LineFeed, "d">>)
  /\ HasIdAndPatch(probe.data_points[2])
  /\ probe.data_points[2].m["patch"] = Str(<<Quote, Backslash, "n">>)
  /\ Len(ReadBack) = 2
  /\ ReadBack[2].value.m["model_patch"] = Str(<<Quote, Backslash, "n">>)

OwnDisk == [st \in Stems |-> IF st = FileOf(file_name) THEN disk[st] ELSE Absent]

OwnReports ==
  [path \in DOMAIN reports |-> IF path[1] = file_name THEN reports[path] ELSE Absent]

OwnStep(name) ==
  LET Is(e) == e.step = name IN SelectSeq(StepsOf(idx), Is)

\* The result of the target as a function of what belongs to it
OwnResult ==
  LET loaded == load_data_points_by_files([exists |-> dir.exists, listing |-> <<>>],
                                          OwnDisk, TRUE, <<file_name>>)
  IN  IF loaded.raised THEN Fail([msg |-> loaded.exc])
      ELSE IF loaded.value = <<>> THEN Fail([msg |-> "Failed to load"])
      ELSE LET own == loaded.value[1]
           IN  IF convert_to_predictions(<<own>>) = <<>>
               THEN Fail([msg |-> "Failed to convert to prediction"])
               ELSE IF OwnStep("PERSIST") = <<>> \/ ~OwnStep("PERSIST")[1].ok
               THEN Fail([msg |-> "Failed to save prediction"])
               ELSE IF OwnStep("EXECUTE") = <<>>
                       \/ ~run_docker_evaluation(OwnStep("EXECUTE")[1].what).success
               THEN Fail([msg |-> "Docker evaluation failed",
                          cause |-> IF OwnStep("EXECUTE") = <<>> THEN None
                                    ELSE ReasonOf(OwnStep("EXECUTE")[1].what)])
               ELSE LET verdict == validate_single_result(own, file_name, OwnReports)
                    IN  IF verdict.raised THEN Fail([msg |-> verdict.exc])
                        ELSE [success |-> TRUE,
                              instance_id |-> own.m["instance_id"],
                              run_id |-> file_name,
                              validation_result |-> verdict.value]

\* C18: the result recorded for a target is a function of its own record,
\* of the outcome of its own write and harness run and of the report found
\* under its own run id, whatever the other targets of the batch, their
\* files, their reports and their results are; so two batches that agree
\* on these for a target record the same result for it. When the pipeline of
\* a file starts nothing of the earlier pipelines is left but the aggregate
\* (the counters and the results recorded so far), and the predictions file
\* and the reports of a name are written by the processing of that name
\* only.
C18_ResultDependsOnOwnInputs ==
  /\ pc = "record" => file_result = OwnResult
  /\ pc = "load" =>
       /\ data_point = None
       /\ predictions = <<>>
       /\ file_result = None
       /\ Counted(all_results) = idx - 1
  /\ \A n \in TargetNames :
       (\A j \in 1..Len(file_names) : j <= idx => file_names[j] # n) =>
          /\ pred_files[n] = NoFile
          /\ \A path \in DOMAIN reports : path[1] = n => reports[path] = Absent

\* The second of two different targets is about to be recorded as compared,
\* after the first has failed
C18_Witness ==
  /\ pc = "record"
  /\ idx = 2
  /\ file_names[1] # file_names[2]
  /\ ~history[1].success
  /\ file_result.success
  /\ file_result.validation_result.status = "success"

\* The named files that exist, in the order of the names
ExistingNamed == LET Exists(f) == f.kind # "absent" IN SelectSeq(NamedFiles, Exists)

\* C19: with an explicit list of names, a name whose file does not exist
\* is skipped, without an exception and without ending the call: the files
\* opened are the named files that exist, in the order of the names, and
\* the result is the records among them that the loader keeps, in that
\* order (every record with the six fields, a patch with text and a test
\* list that holds a test; no file that does not deserialize, no record
\* that misses a field or has a blank patch). A directory that does not
\* exist gives the empty list and no file is opened.
C19_MissingFilesSkipped ==
  answer # None =>
    /\ ~answer.data_points.raised
    /\ ~probe.dir.exists => answer.data_points.value = <<>> /\ answer.opened = <<>>
    /\ probe.dir.exists =>
         LET got == answer.data_points.value
             IsKept(f) == f.kind = "json" /\ f.val \in Range(got)
             kept == SelectSeq(ExistingNamed, IsKept)
         IN  /\ [i \in DOMAIN answer.opened |-> probe.disk[answer.opened[i]]] = ExistingNamed
             /\ got = [i \in DOMAIN kept |-> kept[i].val]
             /\ \A i \in DOMAIN ExistingNamed :
                  /\ IsGoodFile(ExistingNamed[i]) => IsKept(ExistingNamed[i])
                  /\ IsBadFile(ExistingNamed[i]) => ~IsKept(ExistingNamed[i])

\* Of two names the first has no file; the record of the second is returned
C19_Witness ==
  /\ answer # None
  /\ probe.dir.exists
  /\ Len(probe.names) = 2
  /\ NamedFiles[1].kind = "absent"
  /\ IsGoodFile(NamedFiles[2])
  /\ answer.data_points = Ok(<<NamedFiles[2].val>>)
  /\ Len(answer.opened) = 1

\* The report holds a value under the keys of path, one inside the other
RECURSIVE HasPath(_, _)
HasPath(v, path) ==
  \/ path = <<>>
  \/ /\ v.t = "obj"
     /\ Head(path) \in DOMAIN v.m
     /\ HasPath(v.m[Head(path)], Tail(path))

HasList(report, category) ==
  HasPath(report.val, <<"i1", "tests_status", category, "success">>)

HasResolved(report) == HasPath(report.val, <<"i1", "resolved">>)

\* C20: a report that parses and lacks the entry of the instance, or
\* tests_status, or FAIL_TO_PASS / PASS_TO_PASS, or a success sub-list, or
\* resolved: COMPARE takes the empty list for each list it does not find
\* and false for a resolved it does not find, and classifies by the usual
\* rule: success or test_mismatch, never read_error
C20_MissingKeysAreDefaults ==
  ( /\ answer # None
    /\ probe.report \in ShapedReports
    /\ \/ ~HasList(probe.report, "FAIL_TO_PASS")
       \/ ~HasList(probe.report, "PASS_TO_PASS")
       \/ ~HasResolved(probe.report) ) =>
     /\ ~answer.raised
     /\ answer.value.status # "read_error"
     /\ "actual_fail_to_pass" \in DOMAIN answer.value
     /\ ~HasList(probe.report, "FAIL_TO_PASS") =>
          /\ answer.value.actual_fail_to_pass = Arr(<<>>)
          /\ answer.value.fail_to_pass_match = (probe.expected_fail_to_pass = <<>>)
     /\ ~HasList(probe.report, "PASS_TO_PASS") =>
          /\ answer.value.actual_pass_to_pass = Arr(<<>>)
          /\ answer.value.pass_to_pass_match = (probe.expected_pass_to_pass = <<>>)
     /\ ~HasResolved(probe.report) =>
          /\ answer.value.resolved = Bool(FALSE)
          /\ answer.value.status = "test_mismatch"
     /\ answer.value.status =
          IF /\ answer.value.fail_to_pass_match
             /\ answer.value.pass_to_pass_match
             /\ answer.value.resolved = Bool(TRUE)
          THEN "success" ELSE "test_mismatch"

\* A report that says resolved and has no tests_status, for a data point
\* that expects no test: classified success
C20_Witness ==
  /\ answer # None
  /\ probe.report = ReportOf("i1", Obj([resolved |-> Bool(TRUE)]))
  /\ probe.expected_fail_to_pass = <<>>
  /\ probe.expected_pass_to_pass = <<>>
  /\ ~answer.raised
  /\ answer.value.status = "success"

\* ------------------------------------------- the files the batch leaves
\* The processings of the target name n so far (a name given twice is
\* processed twice)
Processings(n) == {i \in DOMAIN file_names : i <= idx /\ file_names[i] = n}

\* The outcomes of the step of that name in the i-th processing
Outcomes(i, name) ==
  {trace[k].ok : k \in {k \in DOMAIN trace :
                          trace[k].idx = i /\ trace[k].step = name}}

PassedLoadAndConvert(i) ==
  /\ Outcomes(i, "LOAD") = {TRUE}
  /\ Outcomes(i, "CONVERT") = {TRUE}

\* The outcomes of the saves to predictions_<n>.jsonl, in the order made
SavesOf(n) ==
  LET Of(e) == e.step = "PERSIST" /\ file_names[e.idx] = n
      saves == SelectSeq(trace, Of)
  IN  [k \in DOMAIN saves |-> saves[k].ok]

Written(n) == pred_files[n] # NoFile

\* predictions_<n>.jsonl read back holds exactly one line, the Prediction
\* of the record of the target n
HoldsOwnLine(n) ==
  LET lines == SplitLines(pred_files[n].text)
  IN  /\ Written(n)
      /\ disk[FileOf(n)].kind = "json"
      /\ Len(lines) = 1
      /\ ReadLine(lines[1]) = Ok(PredictionOf(disk[FileOf(n)].val))

\* No step writes the data directory, and the only step that writes a
\* predictions file is PERSIST, which writes the file of its own target
\* after LOAD and CONVERT succeeded for it
ReadsOnly ==
  /\ disk' = disk
  /\ dir' = dir
  /\ pred_files' # pred_files =>
       /\ pc = "persist"
       /\ PassedLoadAndConvert(idx)
       /\ \A n \in TargetNames \ {file_name} : pred_files'[n] = pred_files[n]

\* A predictions file exists only for a target that passed LOAD and
\* CONVERT, and a processing that failed at LOAD or CONVERT made no save
OnlyAfterConvert ==
  /\ \A n \in TargetNames :
       Written(n) => \E i \in Processings(n) :
                       /\ PassedLoadAndConvert(i)
                       /\ Outcomes(i, "PERSIST") # {}
  /\ \A i \in DOMAIN file_names :
       ~PassedLoadAndConvert(i) => Outcomes(i, "PERSIST") = {}

SuccessEntries(res) ==
  {n \in DOMAIN res.file_results : Qualifies(res.file_results[n])}

\* C22 as claimed: in every non-error result of validate_data_points, for
\* any list of targets (one that names a target twice included),
\* file_results has exactly total_files entries, successful_files is the
\* number of its entries whose success flag is true and whose nested
\* status is success, and failed_files is the number of the other entries
C22_CountersAgreeWithFileResults ==
  (Returned /\ "error" \notin DOMAIN results) =>
    /\ Cardinality(DOMAIN results.file_results) = results.total_files
    /\ results.successful_files = Cardinality(SuccessEntries(results))
    /\ results.failed_files =
         Cardinality(DOMAIN results.file_results \ SuccessEntries(results))

====
